---- MODULE Spec2Model ----
(***************************************************************************)
(* haystack_fastapi_endpoint: the six FastAPI handlers of app.py over the  *)
(* process-wide OpenSearchDocumentStore and the per-request extractive QA  *)
(* pipeline.                                                               *)
(*                                                                         *)
(* Texts (document contents, queries, questions, answer spans) are         *)
(* sequences of words; words are numbers.  Word 0 occurs in every content, *)
(* word i only in content i, word NumContents + 1 in no content.           *)
(* Python's Optional values are None or Some(x).                           *)
(*                                                                         *)
(* The calls the handlers make into haystack are modelled by what the      *)
(* called library function does with the arguments app.py passes:          *)
(*   - Document(content, meta) without id: id = hash of the content alone  *)
(*     (id_hash_keys left at its default);                                 *)
(*   - write_documents without duplicate_documents: a record with the same *)
(*     id is overwritten, the write is visible when the call returns;      *)
(*   - get_document_by_id: the record or None;                             *)
(*   - get_all_documents: a list, never None;                              *)
(*   - query(query) without top_k: the documents sharing a word with the   *)
(*     query, the best top_k = 10 of them;                                 *)
(*   - ExtractiveQAPipeline.run: Retriever node, then Reader node.         *)
(***************************************************************************)
EXTENDS Integers, Sequences, FiniteSets, TLC

VARIABLES
    document_store,  \* the index behind the process-wide store handle: id -> record
    pc,              \* per client: "idle", "write_documents" (save_document before
                     \* line 57), "Reader" (ask_document after retrieval), "done"
    req,             \* per client: the request being served
    loc,             \* per client: new_doc (save_document), retrieved documents
                     \* (ask_document), None otherwise
    resp,            \* per client: the response of the handler, once it has returned
    calls,           \* per client: the calls made to the store / pipeline nodes in
                     \* the current request, in order (history)
    issued           \* the identifiers save_document has returned (history)

vars == <<document_store, pc, req, loc, resp, calls, issued>>

(***************************************************************************)
(* Bounds of the model.                                                    *)
(***************************************************************************)
NumContents == 2
NumNames == 1
BulkContents == 11

(***************************************************************************)
(* Values.                                                                 *)
(***************************************************************************)
None == [None |-> TRUE]
Some(x) == [value |-> x]

NamePool == <<"doc1", "doc2", "doc3", "doc4">>
Names == {NamePool[k] : k \in 1..NumNames}

\* Two request threads of the host: every claim about concurrent requests is
\* about a pair of them.
Clients == {1, 2}

Content(i) == <<0, i>>
Contents == {Content(i) : i \in 1..NumContents}
BulkTexts == {Content(i) : i \in 1..BulkContents}
Queries == {<<w>> : w \in 0..(NumContents + 1)}

Tokens(text) == {text[k] : k \in DOMAIN text}

\* class Document(BaseModel): name optional (default None), content required
Document == [name : {None} \cup {Some(n) : n \in Names}, content : Contents]
BulkDocument == [name : {None}, content : BulkTexts]

\* class Query(BaseModel): question required
Query == [question : Queries]

(***************************************************************************)
(* haystack, as called by app.py.                                          *)
(***************************************************************************)
\* Document._get_id with id_hash_keys = None: a hash of str(content) only
\* (mmh3.hash128 in the library; a polynomial hash here, injective on the
\* texts of the model).
RECURSIVE hash128(_)
hash128(text) ==
    IF text = <<>> THEN 7
    ELSE (hash128(SubSeq(text, 1, Len(text) - 1)) * 31 + text[Len(text)] + 1) % 65536

\* HaystackDocument(content=..., meta=...): no id given, so id = hash(content)
HaystackDocument(content, meta) ==
    [id |-> hash128(content), content |-> content, meta |-> meta]

\* A write that replaces the index by the documents written.
write_documents_replacing(store, documents) ==
    [i \in {documents[k].id : k \in DOMAIN documents} |->
        documents[CHOOSE k \in DOMAIN documents : documents[k].id = i]]

\* document_store.write_documents(documents), duplicate_documents left at the
\* store's default "overwrite": a record with the same id is replaced.
write_documents(store, documents) ==
    LET ids == {documents[k].id : k \in DOMAIN documents}
        last(i) == documents[CHOOSE k \in DOMAIN documents :
                        /\ documents[k].id = i
                        /\ \A j \in DOMAIN documents : documents[j].id = i => j <= k]
    IN  [i \in DOMAIN store \cup ids |-> IF i \in ids THEN last(i) ELSE store[i]]

\* document_store.get_document_by_id(id): the record, or None
get_document_by_id(store, id) ==
    IF id \in DOMAIN store THEN Some(store[id]) ELSE None

\* document_store.get_all_documents(): every record, as a list (never None);
\* the order is the store's and is not modelled.
get_all_documents(store) == Some({store[i] : i \in DOMAIN store})

Min(a, b) == IF a <= b THEN a ELSE b

\* document_store.query(query, top_k): the possible results. A record matches
\* when its content shares a word with the query; the store returns the top_k
\* best matches (ties are the store's to break).
query_top_k == 10
query(store, q, top_k) ==
    LET matching == {store[i] : i \in {j \in DOMAIN store :
                         Tokens(store[j].content) \cap Tokens(q) # {}}}
    IN  {S \in SUBSET matching : Cardinality(S) = Min(top_k, Cardinality(matching))}

\* FARMReader.predict(query, documents, top_k): the possible results, at most
\* top_k Answer objects <<span, document_id>>, best first, each a span of one
\* of the documents.
predict(q, documents, top_k) ==
    LET found == UNION {{<<(<<w>>), d.id>> : w \in Tokens(d.content)} : d \in documents}
    IN  UNION {{s \in [1..k -> found] : \A a, b \in 1..k : a # b => s[a] # s[b]} :
               k \in 0..Min(top_k, Cardinality(found))}

\* Answer.to_dict()
to_dict(x) == [answer |-> x[1], document_id |-> x[2]]

\* The two breadths exchanged.
params_swapped == [Retriever |-> [top_k |-> 1], Reader |-> [top_k |-> 10]]

\* pipeline.run(..., params=...)
params == [Retriever |-> [top_k |-> 10], Reader |-> [top_k |-> 1]]

(***************************************************************************)
(* Requests, responses and the log of capability calls of a request.       *)
(***************************************************************************)
Response(status_code, body) == [status_code |-> status_code, body |-> body]
NoRequest == [op |-> "none"]
NoResponse == [status_code |-> 0]
Call(op, args) == [op |-> op, args |-> args, raised |-> FALSE]

\* The identifiers a client may ask for: the id of every text of the model
\* and one that belongs to no text.
DocumentIds == {hash128(t) : t \in Contents} \cup {hash128(<<>>)}

Init ==
    /\ document_store = <<>>
    /\ pc = [c \in Clients |-> "idle"]
    /\ req = [c \in Clients |-> NoRequest]
    /\ loc = [c \in Clients |-> None]
    /\ resp = [c \in Clients |-> NoResponse]
    /\ calls = [c \in Clients |-> <<>>]
    /\ issued = {}

\* The handler of client c returns: the response is ready, the locals are gone.
Return(c, request, response, log) ==
    /\ pc' = [pc EXCEPT ![c] = "done"]
    /\ req' = [req EXCEPT ![c] = request]
    /\ loc' = [loc EXCEPT ![c] = None]
    /\ resp' = [resp EXCEPT ![c] = response]
    /\ calls' = [calls EXCEPT ![c] = log]

\* A health check that probes the store.
health_probing(c) ==
    /\ pc[c] = "idle"
    /\ Return(c, [op |-> "health"],
              IF DOMAIN document_store = {}
              THEN Response(503, [status |-> "empty"])
              ELSE Response(200, [status |-> "ok"]),
              <<Call("get_all_documents", <<>>)>>)
    /\ UNCHANGED <<document_store, issued>>

\* @app.get("/health")
health(c) ==
    /\ pc[c] = "idle"
    /\ Return(c, [op |-> "health"], Response(200, [status |-> "ok"]), <<>>)
    /\ UNCHANGED <<document_store, issued>>

\* get_document without the None check.
get_document_unchecked(c, document_id) ==
    /\ pc[c] = "idle"
    /\ Return(c, [op |-> "get_document", document_id |-> document_id],
              Response(200, get_document_by_id(document_store, document_id)),
              <<Call("get_document_by_id", <<document_id>>)>>)
    /\ UNCHANGED <<document_store, issued>>

\* @app.get("/documents/{document_id}", status_code=200)
get_document(c, document_id) ==
    /\ pc[c] = "idle"
    /\ LET document == get_document_by_id(document_store, document_id)
       IN  Return(c, [op |-> "get_document", document_id |-> document_id],
                  IF document = None
                  THEN Response(404, [error |-> "Document not found"])
                  ELSE Response(200, document.value),
                  <<Call("get_document_by_id", <<document_id>>)>>)
    /\ UNCHANGED <<document_store, issued>>

\* @app.post("/documents/", status_code=201), line 56: new_doc is built
save_document(c, document) ==
    /\ pc[c] = "idle"
    /\ pc' = [pc EXCEPT ![c] = "write_documents"]
    /\ req' = [req EXCEPT ![c] = [op |-> "save_document", document |-> document]]
    /\ loc' = [loc EXCEPT ![c] =
                  HaystackDocument(document.content, [name |-> document.name])]
    /\ UNCHANGED <<document_store, resp, calls, issued>>

\* save_document, lines 57-58: the write and the response
save_document_write(c) ==
    /\ pc[c] = "write_documents"
    /\ document_store' = write_documents(document_store, <<loc[c]>>)
    /\ issued' = issued \cup {loc[c].id}
    /\ Return(c, req[c], Response(201, [id |-> loc[c].id]),
              <<Call("write_documents", <<loc[c]>>)>>)

\* @app.get("/documents/", status_code=200)
get_all_document(c) ==
    /\ pc[c] = "idle"
    /\ LET documents == get_all_documents(document_store)
       IN  Return(c, [op |-> "get_all_document"],
                  IF documents = None
                  THEN Response(404, [error |-> "Documents not found"])
                  ELSE Response(200, documents.value),
                  <<Call("get_all_documents", <<>>)>>)
    /\ UNCHANGED <<document_store, issued>>

\* @app.get("/documents/search/{query}", status_code=200)
search_document(c, q) ==
    /\ pc[c] = "idle"
    /\ \E documents \in query(document_store, q, query_top_k) :
           Return(c, [op |-> "search_document", query |-> q],
                  Response(200, documents),
                  <<Call("query", <<q>>)>>)
    /\ UNCHANGED <<document_store, issued>>

\* @app.post("/documents/ask", status_code=200): pipeline.run, Retriever node
ask_document(c, q) ==
    /\ pc[c] = "idle"
    /\ \E documents \in query(document_store, q.question, params.Retriever.top_k) :
           /\ loc' = [loc EXCEPT ![c] = documents]
           /\ calls' = [calls EXCEPT ![c] =
                           <<Call("Retriever", [query |-> q.question,
                                                top_k |-> params.Retriever.top_k])>>]
    /\ pc' = [pc EXCEPT ![c] = "Reader"]
    /\ req' = [req EXCEPT ![c] = [op |-> "ask_document", query |-> q]]
    /\ UNCHANGED <<document_store, resp, issued>>

\* ask_document: pipeline.run, Reader node, then lines 83-84
ask_document_read(c) ==
    /\ pc[c] = "Reader"
    /\ \E result \in predict(req[c].query.question, loc[c], params.Reader.top_k) :
           LET answers == [k \in DOMAIN result |-> to_dict(result[k])]
           IN  Return(c, req[c], Response(200, answers),
                      Append(calls[c],
                             Call("Reader", [query |-> req[c].query.question,
                                             documents |-> loc[c],
                                             top_k |-> params.Reader.top_k])))
    /\ UNCHANGED <<document_store, issued>>

\* The response of client c is sent; the client may send its next request.
Reply(c) ==
    /\ pc[c] = "done"
    /\ pc' = [pc EXCEPT ![c] = "idle"]
    /\ req' = [req EXCEPT ![c] = NoRequest]
    /\ resp' = [resp EXCEPT ![c] = NoResponse]
    /\ calls' = [calls EXCEPT ![c] = <<>>]
    /\ UNCHANGED <<document_store, loc, issued>>

Next ==
    \E c \in Clients :
        \/ health(c)
        \/ \E document_id \in DocumentIds : get_document(c, document_id)
        \/ \E document \in Document : save_document(c, document)
        \/ save_document_write(c)
        \/ get_all_document(c)
        \/ \E q \in Queries : search_document(c, q)
        \/ \E q \in Query : ask_document(c, q)
        \/ ask_document_read(c)
        \/ Reply(c)

Spec == Init /\ [][Next]_vars

(***************************************************************************)
(* A delegated capability raises. No handler has a try/except, so the      *)
(* exception leaves the handler and the host answers 500; a write that     *)
(* raised has stored nothing.                                              *)
(***************************************************************************)
Raised(op, args) == [op |-> op, args |-> args, raised |-> TRUE]
Fault == Response(500, "Internal Server Error")

\* get_document: get_document_by_id raises
get_document_raise(c, document_id) ==
    /\ pc[c] = "idle"
    /\ Return(c, [op |-> "get_document", document_id |-> document_id], Fault,
              <<Raised("get_document_by_id", <<document_id>>)>>)
    /\ UNCHANGED <<document_store, issued>>

\* save_document with the exception of the write swallowed.
save_document_swallow(c) ==
    /\ pc[c] = "write_documents"
    /\ Return(c, req[c], Response(201, [id |-> loc[c].id]),
              <<Raised("write_documents", <<loc[c]>>)>>)
    /\ UNCHANGED <<document_store, issued>>

\* save_document: write_documents raises
save_document_raise(c) ==
    /\ pc[c] = "write_documents"
    /\ Return(c, req[c], Fault, <<Raised("write_documents", <<loc[c]>>)>>)
    /\ UNCHANGED <<document_store, issued>>

\* get_all_document: get_all_documents raises
get_all_document_raise(c) ==
    /\ pc[c] = "idle"
    /\ Return(c, [op |-> "get_all_document"], Fault,
              <<Raised("get_all_documents", <<>>)>>)
    /\ UNCHANGED <<document_store, issued>>

\* search_document: query raises
search_document_raise(c, q) ==
    /\ pc[c] = "idle"
    /\ Return(c, [op |-> "search_document", query |-> q], Fault,
              <<Raised("query", <<q>>)>>)
    /\ UNCHANGED <<document_store, issued>>

\* ask_document: the Retriever node raises
ask_document_raise(c, q) ==
    /\ pc[c] = "idle"
    /\ Return(c, [op |-> "ask_document", query |-> q], Fault,
              <<Raised("Retriever", [query |-> q.question,
                                     top_k |-> params.Retriever.top_k])>>)
    /\ UNCHANGED <<document_store, issued>>

\* ask_document: the Reader node raises
ask_document_read_raise(c) ==
    /\ pc[c] = "Reader"
    /\ Return(c, req[c], Fault,
              Append(calls[c], Raised("Reader", [query |-> req[c].query.question,
                                                 documents |-> loc[c],
                                                 top_k |-> params.Reader.top_k])))
    /\ UNCHANGED <<document_store, issued>>

NextFault ==
    \/ Next
    \/ \E c \in Clients :
        \/ \E document_id \in DocumentIds : get_document_raise(c, document_id)
        \/ save_document_raise(c)
        \/ get_all_document_raise(c)
        \/ \E q \in Queries : search_document_raise(c, q)
        \/ \E q \in Query : ask_document_raise(c, q)
        \/ ask_document_read_raise(c)

SpecFault == Init /\ [][NextFault]_vars

(***************************************************************************)
(* One client fills the store with up to BulkContents documents (names     *)
(* omitted), lists them and searches them.                                 *)
(***************************************************************************)
BulkQueries == {<<0>>, <<1>>}

NextBulk ==
    \/ \E document \in BulkDocument : save_document(1, document)
    \/ save_document_write(1)
    \/ get_all_document(1)
    \/ \E q \in BulkQueries : search_document(1, q)
    \/ Reply(1)

SpecBulk == Init /\ [][NextBulk]_vars

(***************************************************************************)
(* Properties.                                                             *)
(***************************************************************************)
\* The handler of client c, serving a request of kind op, returns in this step.
Returns(c, op) == pc[c] # "done" /\ pc'[c] = "done" /\ req'[c].op = op

\* The save of client c has completed: c holds the 201 response and the
\* identifier in it.
HasSaved(c) == pc[c] = "done" /\ req[c].op = "save_document" /\ resp[c].status_code = 201

\* The record the completed save of client c is expected to have left.
Saved(c) ==
    [id |-> resp[c].body.id, content |-> req[c].document.content,
     meta |-> [name |-> req[c].document.name]]

NotFound(what) == Response(404, [error |-> what])

\* C1: once a save has returned an identifier, a get-by-id with it answers
\* 200 with a record holding exactly that save's content and name, whatever
\* the other clients did in between.
C1_SaveGetRoundTrip ==
    [][\A c, e \in Clients :
          (HasSaved(c) /\ Returns(e, "get_document")
               /\ req'[e].document_id = resp[c].body.id) =>
              resp'[e] = Response(200, Saved(c))]_vars

\* C2: get-by-id answers 404 with {"error": "Document not found"} for an
\* identifier no save has returned, and answers 200, with the record, only
\* for an identifier the store holds.
C2_GetUnknownIsNotFound ==
    [][\A c \in Clients :
          Returns(c, "get_document") =>
              LET id == req'[c].document_id
              IN  /\ resp'[c].status_code \in {200, 404}
                  /\ id \notin issued =>
                         resp'[c] = NotFound("Document not found")
                  /\ resp'[c].status_code = 200 =>
                         /\ id \in DOMAIN document_store
                         /\ resp'[c].body = document_store[id]
                         /\ resp'[c].body.id = id]_vars

C2_Witness ==
    \E c \in Clients :
        /\ pc[c] = "done" /\ req[c].op = "get_document"
        /\ resp[c] = NotFound("Document not found")
        /\ req[c].document_id \in {hash128(t) : t \in Contents}
        /\ req[c].document_id \notin issued
        /\ issued # {}

\* C3: list-all answers 404 with {"error": "Documents not found"} when the
\* store reports an empty (or null) result, and 200 with the records otherwise.
C3_ListAllEmptyIsNotFound ==
    [][\A c \in Clients :
          Returns(c, "get_all_document") =>
              IF DOMAIN document_store = {}
              THEN resp'[c] = NotFound("Documents not found")
              ELSE resp'[c] = Response(200, {document_store[i] : i \in DOMAIN document_store})]_vars

\* C4: a record, once saved, is never changed or removed by a later operation.
C4_SavedDocumentImmutable ==
    [][\A i \in DOMAIN document_store :
          i \in DOMAIN document_store' /\ document_store'[i] = document_store[i]]_vars

\* C5: after N >= 1 completed saves, list-all answers 200 with a collection
\* holding the record of each of the N saves.
C5_ListAllContainsSaved ==
    [][\A c, e \in Clients :
          (HasSaved(c) /\ Returns(e, "get_all_document")) =>
              /\ resp'[e].status_code = 200
              /\ Saved(c) \in resp'[e].body]_vars

\* C6: ask calls the retriever first, with top_k = 10, and only after it has
\* returned calls the reader, with the same question, the retrieved
\* candidates and top_k = 1; it answers 200 with the reader's answers in the
\* reader's order, at most one of them, each taken from a candidate.
C6_AskRetrievesThenReads ==
    [][\A c \in Clients :
          /\ (pc[c] # "Reader" /\ pc'[c] = "Reader") =>
                 /\ pc[c] = "idle"
                 /\ calls'[c] = <<Call("Retriever", [query |-> req'[c].query.question,
                                                     top_k |-> 10])>>
                 /\ loc'[c] \in query(document_store, req'[c].query.question, 10)
          /\ Returns(c, "ask_document") =>
                 /\ pc[c] = "Reader"
                 /\ calls[c] = <<Call("Retriever", [query |-> req[c].query.question,
                                                    top_k |-> 10])>>
                 /\ calls'[c] = Append(calls[c],
                                       Call("Reader", [query |-> req[c].query.question,
                                                       documents |-> loc[c],
                                                       top_k |-> 1]))
                 /\ resp'[c].status_code = 200
                 /\ Len(resp'[c].body) <= 1
                 /\ \A k \in DOMAIN resp'[c].body :
                        \E d \in loc[c] :
                            /\ resp'[c].body[k].document_id = d.id
                            /\ Tokens(resp'[c].body[k].answer) \subseteq Tokens(d.content)]_vars

C6_Witness ==
    \E c \in Clients :
        /\ pc[c] = "done" /\ req[c].op = "ask_document"
        /\ Len(calls[c]) = 2
        /\ Cardinality(calls[c][2].args.documents) = 2
        /\ Len(resp[c].body) = 1

\* C7: a save writes the record of its own request under the identifier it
\* returns and leaves every other record and every other request as they
\* were, whatever other requests are in flight; no other step changes the
\* store.
C7_ConcurrentRequestsIndependent ==
    [][/\ \A c \in Clients :
              Returns(c, "save_document") =>
                  LET id == resp'[c].body.id
                  IN  /\ resp'[c].status_code = 201
                      /\ id \in DOMAIN document_store'
                      /\ document_store'[id].content = req'[c].document.content
                      /\ document_store'[id].meta.name = req'[c].document.name
                      /\ \A i \in DOMAIN document_store \ {id} :
                             i \in DOMAIN document_store'
                                 /\ document_store'[i] = document_store[i]
                      /\ \A e \in Clients \ {c} :
                             /\ pc'[e] = pc[e] /\ req'[e] = req[e] /\ loc'[e] = loc[e]
                             /\ resp'[e] = resp[e] /\ calls'[e] = calls[e]
       /\ (\A c \in Clients : ~Returns(c, "save_document")) =>
              document_store' = document_store]_vars

C7_Witness ==
    \E c, e \in Clients :
        /\ c # e
        /\ pc[c] = "done" /\ req[c].op = "save_document"
        /\ pc[e] = "done" /\ req[e].op = "save_document"
        /\ req[c].document.content # req[e].document.content
        /\ document_store[resp[c].body.id].meta.name = req[c].document.name
        /\ document_store[resp[e].body.id].meta.name = req[e].document.name

\* C8: health answers 200 with {"status": "ok"} whatever the store holds and
\* whatever the other requests are doing, and makes no call to the store.
C8_HealthAlwaysOk ==
    [][\A c \in Clients :
          /\ pc[c] = "idle" => ENABLED health(c)
          /\ Returns(c, "health") =>
                 /\ resp'[c] = Response(200, [status |-> "ok"])
                 /\ calls'[c] = <<>>
                 /\ document_store' = document_store]_vars

C8_Witness ==
    \E c, e \in Clients :
        /\ pc[c] = "done" /\ req[c].op = "health"
        /\ resp[c] = Response(200, [status |-> "ok"])
        /\ pc[e] \in {"write_documents", "Reader"}
        /\ DOMAIN document_store # {}

\* C9: search answers 200 with a collection that includes every saved
\* document whose content contains the keyword, and leaves the store unchanged.
C9_SearchIncludesMatching ==
    [][\A c \in Clients :
          Returns(c, "search_document") =>
              /\ resp'[c].status_code = 200
              /\ document_store' = document_store
              /\ \A i \in DOMAIN document_store :
                     Tokens(req'[c].query) \subseteq Tokens(document_store[i].content) =>
                         document_store[i] \in resp'[c].body]_vars

\* C10: a handler calls each capability at most once per request; a call that
\* raises is the last call of the request and the request ends in a fault
\* (500), never in a 201 with an identifier; the only structured error
\* responses are the 404 of get-by-id and of list-all.
C10_FailuresPropagate ==
    \A c \in Clients :
        /\ \A j, k \in DOMAIN calls[c] : j # k => calls[c][j].op # calls[c][k].op
        /\ \A k \in DOMAIN calls[c] :
               calls[c][k].raised => (k = Len(calls[c]) /\ pc[c] = "done")
        /\ pc[c] = "done" =>
               /\ (\E k \in DOMAIN calls[c] : calls[c][k].raised) <=> (resp[c] = Fault)
               /\ resp[c].status_code \in {200, 201, 404, 500}
               /\ resp[c].status_code = 404 =>
                      req[c].op \in {"get_document", "get_all_document"}
               /\ resp[c].status_code = 201 =>
                      /\ req[c].op = "save_document"
                      /\ calls[c] = <<Call("write_documents",
                                           <<HaystackDocument(req[c].document.content,
                                                 [name |-> req[c].document.name])>>)>>
                      /\ resp[c].body.id \in DOMAIN document_store
               /\ req[c].op = "ask_document" => Len(calls[c]) <= 2
               /\ req[c].op \notin {"ask_document", "health"} => Len(calls[c]) = 1

C10_Witness ==
    \E c \in Clients :
        /\ pc[c] = "done" /\ req[c].op = "save_document"
        /\ calls[c][1].raised
        /\ resp[c] = Fault
        /\ hash128(req[c].document.content) \notin DOMAIN document_store

====
